---------------------------- MODULE Spec2Model ----------------------------
(***************************************************************************)
(* grepfuzz: blur classification of grayscale images by a suite of         *)
(* detectors (src/src/blur_*.rs, src/src/lib.rs) and the command-line      *)
(* filter built on it (src/src/main.rs).                                   *)
(*                                                                         *)
(* Six specifications:                                                     *)
(*   SpecLib      the library entry points (detect, process_image_buffer)  *)
(*                applied to bounded images and detector lists;            *)
(*   SpecAnalyze  analyze_blur_variance on the bounded images and on the   *)
(*                images of the tests;                                     *)
(*   SpecRepeat   one built detector list evaluated several times;         *)
(*   Spec         one run of main(): argument parsing, the image preload,  *)
(*                the passthrough loop and the NUL-delimited path loop;    *)
(*   SpecLive     Spec with main() taking its next step whenever it has    *)
(*                one (termination of the loops);                          *)
(*   SpecConfig   a run of main() with threshold options and a             *)
(*                configuration file.                                      *)
(*                                                                         *)
(* f64 values are modelled as exact rationals or NaN: rounding of the      *)
(* floating-point accumulation is not modelled.                            *)
(***************************************************************************)
EXTENDS Integers, Sequences, FiniteSets, TLC

(***************************************************************************)
(* Bounds of the model.                                                    *)
(***************************************************************************)
\* largest image width and height explored
MaxDim == 3
\* largest number of symbols (bytes and end-of-file conditions) on stdin
MaxLen == 3
\* largest number of evaluations through one detector list
MaxCalls == 3

(***************************************************************************)
(* Values of the tests (main.rs mod tests, main_tests.rs)                  *)
(***************************************************************************)
\* let width = 100; let height = 100;
TestDim == 100
\* let block = 10;
TestBlock == 10

(***************************************************************************)
(* Sequences                                                               *)
(***************************************************************************)
\* s[lo] + ... + s[hi], by halves
RECURSIVE SumFromTo(_, _, _)
SumFromTo(s, lo, hi) ==
    IF lo > hi THEN 0
    ELSE IF lo = hi THEN s[lo]
    ELSE LET mid == (lo + hi) \div 2
         IN  SumFromTo(s, lo, mid) + SumFromTo(s, mid + 1, hi)

SumSeq(s) == SumFromTo(s, 1, Len(s))

SeqsUpTo(S, n) == UNION {[1..k -> S] : k \in 0..n}

Range(s) == {s[i] : i \in 1..Len(s)}

Clamp(t, lo, hi) == IF t < lo THEN lo ELSE IF t > hi THEN hi ELSE t

(***************************************************************************)
(* f64 values: an exact rational num/den (den > 0) or NaN.                 *)
(***************************************************************************)
NaN == [nan |-> TRUE, num |-> 0, den |-> 1]

Rat(n, d) == [nan |-> FALSE, num |-> n, den |-> d]

\* f64 division a / b of two non-negative integers-valued floats:
\* 0.0 / 0.0 is NaN (no panic); b = 0 with a > 0 cannot arise here.
FDiv(a, b) == IF b = 0 THEN NaN ELSE Rat(a, b)

\* The f64 comparison v < t: false when either side is NaN.  For
\* v = q + r/den (0 <= r < den) and t = tn/td:  v < t  iff
\* td*q + floor(td*r/den) < tn, which keeps the products small.
FLt(v, t) ==
    /\ ~v.nan
    /\ ~t.nan
    /\ LET q == v.num \div v.den
           r == v.num % v.den
       IN  t.den * q + ((t.den * r) \div v.den) < t.num

(***************************************************************************)
(* GrayscaleImage: ImageBuffer<Luma<u8>, Vec<u8>>, row-major.              *)
(***************************************************************************)
Dims == 0..MaxDim

Pixel(img, x, y) == img.px[y * img.w + x + 1]

\* ImageSource::from_checkerboard, ImageSource::from_white, the
\* checkerboard of blocks of test_sharp_on_large_checkerboard, and further
\* patterns: solid black, dark left half / bright right half, dark interior
\* inside a bright border.
PatternPixel(kind, w, h, x, y) ==
    CASE kind = "checkerboard" -> IF (x + y) % 2 = 0 THEN 0 ELSE 255
      [] kind = "blocks" ->
            IF ((x \div TestBlock) + (y \div TestBlock)) % 2 = 0 THEN 0 ELSE 255
      [] kind = "white" -> 255
      [] kind = "black" -> 0
      [] kind = "split" -> IF 2 * x < w THEN 0 ELSE 255
      [] kind = "hole" ->
            IF x = 0 \/ y = 0 \/ x = w - 1 \/ y = h - 1 THEN 255 ELSE 0

MkImage(kind, w, h) ==
    [w |-> w, h |-> h,
     px |-> [i \in 1..(w * h) |->
                PatternPixel(kind, w, h, (i - 1) % w, (i - 1) \div w)]]

from_checkerboard(w, h) == MkImage("checkerboard", w, h)

from_white(w, h) == MkImage("white", w, h)

Patterns == {"checkerboard", "white", "black", "split", "hole"}

Images == {MkImage(k, w, h) : k \in Patterns, w \in Dims, h \in Dims}

\* the images the tests build
TestImages == {MkImage(k, TestDim, TestDim) : k \in {"white", "checkerboard", "blocks"}}

ZeroArea(img) == img.w = 0 \/ img.h = 0

(***************************************************************************)
(* image::imageops::filter3x3 as called by the detectors.  The filter      *)
(* visits the interior pixels only (y in 1..height-1, x in 1..width-1,     *)
(* exclusive), leaves the border ring at zero, divides by the kernel sum   *)
(* (1 when the kernel sums to zero, as all kernels here do) and clamps to  *)
(* [0, max] of the output sample type: 255 for u8, 1.0 for f32.            *)
(***************************************************************************)
Taps == <<<<-1, -1>>, <<0, -1>>, <<1, -1>>,
          <<-1, 0>>,  <<0, 0>>,  <<1, 0>>,
          <<-1, 1>>,  <<0, 1>>,  <<1, 1>>>>

\* height - 1 and width - 1 are u32 subtractions: with a zero dimension a
\* build with overflow checks panics there; without them the range wraps
\* and the first get_pixel is out of bounds, unless the inner range is
\* empty.
filter3x3_panics(w, h, build) ==
    \/ h = 0 /\ (build = "debug" \/ w \notin {1, 2})
    \/ h >= 3 /\ w = 0

filter3x3_at(img, kernel, max, x, y) ==
    IF x = 0 \/ y = 0 \/ x >= img.w - 1 \/ y >= img.h - 1
    THEN 0
    ELSE Clamp(SumSeq([k \in 1..9 |->
                 kernel[k] * Pixel(img, x + Taps[k][1], y + Taps[k][2])]),
               0, max)

filter3x3(img, kernel, max) ==
    [w |-> img.w, h |-> img.h,
     px |-> [i \in 1..(img.w * img.h) |->
                filter3x3_at(img, kernel, max, (i - 1) % img.w, (i - 1) \div img.w)]]

\* a kernel that does not sum to zero
LaplacianKernel_unbalanced == <<0, 1, 0, 1, -3, 1, 0, 1, 0>>

LaplacianKernel == <<0, 1, 0, 1, -4, 1, 0, 1, 0>>

SobelX == <<-1, 0, 1, -2, 0, 2, -1, 0, 1>>

SobelY == <<-1, -2, -1, 0, 0, 0, 1, 2, 1>>

\* population variance of a pixel vector, as the two loops compute it:
\* mean = sum / n, variance = sum((p - mean)^2) / n; n = 0 gives NaN.
PopulationVariance(px) ==
    LET n == Len(px)
        s == SumSeq(px)
        ss == SumSeq([i \in 1..n |-> px[i] * px[i]])
    IN  IF n = 0 THEN NaN ELSE Rat(n * ss - s * s, n * n)

(***************************************************************************)
(* The detectors.  A detect outcome is a panic or a pair (value, is_blurry)*)
(***************************************************************************)
Panic == [panic |-> TRUE, value |-> NaN, is_blurry |-> FALSE]

Detected(v, b) == [panic |-> FALSE, value |-> v, is_blurry |-> b]

\* the Laplacian variance of blur_laplacian.rs / analyze_blur_variance
LaplacianValue(img) == PopulationVariance(filter3x3(img, LaplacianKernel, 1).px)

\* the mean squared Sobel gradient of blur_tenengrad.rs
TenengradValue(img) ==
    LET gx == filter3x3(img, SobelX, 255).px
        gy == filter3x3(img, SobelY, 255).px
    IN  FDiv(SumSeq([i \in 1..Len(gx) |-> gx[i] * gx[i] + gy[i] * gy[i]]),
             img.w * img.h)

\* The values of the explored images, computed once.
LaplacianValues == [i \in Images |-> LaplacianValue(i)]

TenengradValues == [i \in Images |-> TenengradValue(i)]

\* the comparison turned around
analyze_blur_variance_gt(img, threshold, build) ==
    IF filter3x3_panics(img.w, img.h, build) THEN Panic
    ELSE LET variance == LaplacianValue(img)
         IN  Detected(variance, FLt(threshold, variance))

analyze_blur_variance(img, threshold, build) ==
    IF filter3x3_panics(img.w, img.h, build) THEN Panic
    ELSE LET variance == LaplacianValue(img)
         IN  Detected(variance, FLt(variance, threshold))

\* the comparison slipped to <=
LaplacianVarianceDetector_detect_le(img, threshold, build) ==
    IF filter3x3_panics(img.w, img.h, build) THEN Panic
    ELSE LET variance == LaplacianValues[img]
         IN  Detected(variance, ~FLt(threshold, variance) /\ ~variance.nan)

LaplacianVarianceDetector_detect(img, threshold, build) ==
    IF filter3x3_panics(img.w, img.h, build) THEN Panic
    ELSE LET variance == LaplacianValues[img]
         IN  Detected(variance, FLt(variance, threshold))

TenengradDetector_detect(img, threshold, build) ==
    IF filter3x3_panics(img.w, img.h, build) THEN Panic
    ELSE LET val == TenengradValues[img]
         IN  Detected(val, FLt(val, threshold))

(***************************************************************************)
(* OpenCV: imgproc::laplacian(src, dst, CV_64F, ksize = 3, scale 1,        *)
(* delta 0, BORDER_DEFAULT).  With ksize = 3 OpenCV applies the kernel     *)
(* [2 0 2; 0 -8 0; 2 0 2]; BORDER_DEFAULT is BORDER_REFLECT_101; the       *)
(* output is f64 and is not clamped.  An empty source is rejected, and     *)
(* the expect() on the result panics.  The crate links OpenCV              *)
(* unconditionally (`use opencv::...`, no cargo feature, no cfg): where     *)
(* the backend is missing the first call into it cannot complete, and the  *)
(* process aborts.                                                         *)
(***************************************************************************)
OpenCvKernel3 == <<2, 0, 2, 0, -8, 0, 2, 0, 2>>

Reflect101(i, n) ==
    IF n = 1 THEN 0
    ELSE IF i < 0 THEN -i
    ELSE IF i >= n THEN 2 * n - 2 - i
    ELSE i

opencv_laplacian_at(img, x, y) ==
    SumSeq([k \in 1..9 |->
        OpenCvKernel3[k] * Pixel(img, Reflect101(x + Taps[k][1], img.w),
                                      Reflect101(y + Taps[k][2], img.h))])

OpenCvLaplacianValue(img) ==
    PopulationVariance([i \in 1..(img.w * img.h) |->
        opencv_laplacian_at(img, (i - 1) % img.w, (i - 1) \div img.w)])

OpenCvLaplacianValues == [i \in Images |-> OpenCvLaplacianValue(i)]

OpenCvLaplacianDetector_detect(img, threshold, opencv) ==
    IF ~opencv \/ ZeroArea(img) THEN Panic
    ELSE LET variance == OpenCvLaplacianValues[img]
         IN  Detected(variance, FLt(variance, threshold))

(***************************************************************************)
(* The suite: Vec<Box<dyn BlurDetector>>.  A detector is its concrete      *)
(* type and its threshold field.                                           *)
(***************************************************************************)
Kinds == {"Laplacian", "Tenengrad", "OpenCvLaplacian"}

Detector(kind, threshold) == [kind |-> kind, threshold |-> threshold]

\* dyn dispatch of BlurDetector::detect
detect(det, img, build, opencv) ==
    CASE det.kind = "Laplacian" ->
            LaplacianVarianceDetector_detect(img, det.threshold, build)
      [] det.kind = "Tenengrad" ->
            TenengradDetector_detect(img, det.threshold, build)
      [] det.kind = "OpenCvLaplacian" ->
            OpenCvLaplacianDetector_detect(img, det.threshold, opencv)

\* BlurDetector::name.  Only TenengradDetector implements it in the source;
\* the other two names are the identifiers the specification gives.
name(det) ==
    CASE det.kind = "Laplacian" -> "Laplacian"
      [] det.kind = "Tenengrad" -> "Tenengrad"
      [] det.kind = "OpenCvLaplacian" -> "OpenCVLaplacian"

\* build_detectors: the three detectors in their fixed order
build_detectors(laplacian_threshold, tenengrad_threshold, opencv_laplacian_threshold) ==
    << Detector("Laplacian", laplacian_threshold),
       Detector("Tenengrad", tenengrad_threshold),
       Detector("OpenCvLaplacian", opencv_laplacian_threshold) >>

FZero == Rat(0, 1)

\* lib.rs: the downcast chain that recovers the threshold of a detector
lib_threshold_of(det) ==
    IF det.kind = "Laplacian" THEN det.threshold
    ELSE IF det.kind = "Tenengrad" THEN det.threshold
    ELSE IF det.kind = "OpenCvLaplacian" THEN det.threshold
    ELSE FZero

\* main.rs: the same chain without the OpenCvLaplacianDetector arm
main_threshold_of(det) ==
    IF det.kind = "Laplacian" THEN det.threshold
    ELSE IF det.kind = "Tenengrad" THEN det.threshold
    ELSE FZero

BlurResult(nm, value, threshold, is_blurry) ==
    [name |-> nm, value |-> value, threshold |-> threshold, is_blurry |-> is_blurry]

\* one iteration of `for det in detectors` of lib.rs
lib_reading(det, img, build, opencv) ==
    LET d == detect(det, img, build, opencv)
    IN  BlurResult(name(det), d.value, lib_threshold_of(det), d.is_blurry)

\* one iteration of `for det in detectors` of main.rs
main_reading(det, img, build, opencv) ==
    LET d == detect(det, img, build, opencv)
    IN  BlurResult("Box<dyn BlurDetector>", d.value, main_threshold_of(det), d.is_blurry)

\* let mut all_blurry = true; all_blurry = all_blurry && is_blurry
RECURSIVE all_blurry_from(_, _)
all_blurry_from(acc, results) ==
    IF results = <<>> THEN acc
    ELSE all_blurry_from(acc /\ Head(results).is_blurry, Tail(results))

\* the accumulator started at false
all_blurry_init_false(results) == all_blurry_from(FALSE, results)

\* the verdict of the last detector only
all_blurry_last(results) ==
    IF results = <<>> THEN TRUE ELSE results[Len(results)].is_blurry

all_blurry(results) == all_blurry_from(TRUE, results)

AnyPanic(img, dets, build, opencv) ==
    \E i \in 1..Len(dets) : detect(dets[i], img, build, opencv).panic

\* The outcome of a call: a panic, an Err, or the returned tuple.
Panicked ==
    [status |-> "panic", overall |-> FALSE, readings |-> <<>>, width |-> 0, height |-> 0]

Failed ==
    [status |-> "err", overall |-> FALSE, readings |-> <<>>, width |-> 0, height |-> 0]

Returned(overall, readings, w, h) ==
    [status |-> "ok", overall |-> overall, readings |-> readings, width |-> w, height |-> h]

\* lib.rs process_image_buffer
process_image_buffer(img, dets, build, opencv) ==
    IF AnyPanic(img, dets, build, opencv) THEN Panicked
    ELSE LET results == [i \in 1..Len(dets) |-> lib_reading(dets[i], img, build, opencv)]
         IN  Returned(all_blurry(results), results, img.w, img.h)

\* The outcome of image::open(path).grayscale().to_luma8()
OpenErr == [ok |-> FALSE, img |-> [w |-> 0, h |-> 0, px |-> <<>>]]

Opened(img) == [ok |-> TRUE, img |-> img]

\* lib.rs process_image: `opened` is the outcome of image::open(path),
\* `metadata_ok` that of std::fs::metadata(path).
process_image(opened, metadata_ok, dets, build, opencv) ==
    IF ~opened.ok THEN Failed
    ELSE IF AnyPanic(opened.img, dets, build, opencv) THEN Panicked
    ELSE IF ~metadata_ok THEN Failed
    ELSE LET results == [i \in 1..Len(dets) |->
                            lib_reading(dets[i], opened.img, build, opencv)]
         IN  Returned(all_blurry(results), results, opened.img.w, opened.img.h)

\* main.rs process_image
main_process_image(opened, metadata_ok, dets, build, opencv) ==
    IF ~opened.ok THEN Failed
    ELSE IF AnyPanic(opened.img, dets, build, opencv) THEN Panicked
    ELSE IF ~metadata_ok THEN Failed
    ELSE LET results == [i \in 1..Len(dets) |->
                            main_reading(dets[i], opened.img, build, opencv)]
         IN  Returned(all_blurry(results), results, opened.img.w, opened.img.h)

(***************************************************************************)
(* Bytes, UTF-8 and NUL-delimited records                                  *)
(***************************************************************************)
NUL == 0

\* The bytes explored: NUL, the letter 'a', 0x89 (a continuation byte: not
\* valid UTF-8 on its own, and the first byte of the PNG signature) and
\* 0xC3 (the lead byte of a two-byte sequence; 0xC3 0x89 is U+00C9).
Bytes == {NUL, 97, 137, 195}

\* On stdin, an end-of-file condition: a read that returns zero bytes.  The
\* end of the sequence is one too.  Neither Stdin nor its BufReader latches
\* end-of-file, so bytes may follow one (a FIFO reopened by a second writer,
\* a file that grows).
EofMark == 255 + 1

IsCont(b) == b >= 128 /\ b <= 191

\* String::from_utf8: the code points of a byte vector, or an error.
RECURSIVE from_utf8(_)
from_utf8(b) ==
    IF b = <<>> THEN [ok |-> TRUE, chars |-> <<>>]
    ELSE
      LET b1 == b[1]
          n  == IF b1 < 128 THEN 1
                ELSE IF b1 >= 194 /\ b1 <= 223 THEN 2
                ELSE IF b1 >= 224 /\ b1 <= 239 THEN 3
                ELSE IF b1 >= 240 /\ b1 <= 244 THEN 4
                ELSE 0
          wellFormed ==
              /\ n > 0
              /\ Len(b) >= n
              /\ \A i \in 2..n : IsCont(b[i])
              /\ (b1 = 224 => b[2] >= 160)
              /\ (b1 = 237 => b[2] <= 159)
              /\ (b1 = 240 => b[2] >= 144)
              /\ (b1 = 244 => b[2] <= 143)
          cp == CASE n = 1 -> b1
                  [] n = 2 -> (b1 - 192) * 64 + (b[2] - 128)
                  [] n = 3 -> (b1 - 224) * 4096 + (b[2] - 128) * 64 + (b[3] - 128)
                  [] n = 4 -> (b1 - 240) * 262144 + (b[2] - 128) * 4096
                                + (b[3] - 128) * 64 + (b[4] - 128)
      IN  IF ~wellFormed THEN [ok |-> FALSE, chars |-> <<>>]
          ELSE LET rest == from_utf8(SubSeq(b, n + 1, Len(b)))
               IN  IF rest.ok THEN [ok |-> TRUE, chars |-> <<cp>> \o rest.chars]
                   ELSE rest

\* one byte per code point, the high bits dropped
as_bytes_truncating(chars) == [i \in 1..Len(chars) |-> chars[i] % 256]

\* str::as_bytes: the UTF-8 encoding of the code points of a String.
RECURSIVE as_bytes(_)
as_bytes(chars) ==
    IF chars = <<>> THEN <<>>
    ELSE LET c == Head(chars)
             enc == IF c < 128 THEN <<c>>
                    ELSE IF c < 2048 THEN <<192 + (c \div 64), 128 + (c % 64)>>
                    ELSE IF c < 65536
                         THEN <<224 + (c \div 4096), 128 + ((c \div 64) % 64), 128 + (c % 64)>>
                    ELSE <<240 + (c \div 262144), 128 + ((c \div 4096) % 64),
                           128 + ((c \div 64) % 64), 128 + (c % 64)>>
         IN  enc \o as_bytes(Tail(chars))

\* BufRead::read_until(b'\0', &mut buffer) on a cleared buffer: the bytes
\* up to and including the first NUL, or up to the next end-of-file
\* condition, and what is left on stdin.  bytes_read = Len(buf).
RECURSIVE read_until(_)
read_until(s) ==
    IF s = <<>> THEN [buf |-> <<>>, rest |-> <<>>]
    ELSE IF Head(s) = EofMark THEN [buf |-> <<>>, rest |-> Tail(s)]
    ELSE IF Head(s) = NUL THEN [buf |-> <<NUL>>, rest |-> Tail(s)]
    ELSE LET r == read_until(Tail(s))
         IN  [buf |-> <<Head(s)>> \o r.buf, rest |-> r.rest]

\* Read::read_to_end: every byte up to the next end-of-file condition.
RECURSIVE read_to_end(_)
read_to_end(s) ==
    IF s = <<>> THEN [buf |-> <<>>, rest |-> <<>>]
    ELSE IF Head(s) = EofMark THEN [buf |-> <<>>, rest |-> Tail(s)]
    ELSE LET r == read_to_end(Tail(s))
         IN  [buf |-> <<Head(s)>> \o r.buf, rest |-> r.rest]

\* if buffer.last() == Some(&b'\0') { buffer.pop(); }
pop_nul(buf) ==
    IF buf # <<>> /\ buf[Len(buf)] = NUL THEN SubSeq(buf, 1, Len(buf) - 1) ELSE buf

(***************************************************************************)
(* Command line (main.rs struct Cli) and configuration                     *)
(***************************************************************************)
Flags == {"--file", "--synthetic-checkerboard", "--synthetic-white",
          "-p", "-b", "-s", "-a", "-v"}

\* the options that take a value: the three thresholds and the config path
TuningFlags == {"--threshold", "--tenengrad-threshold",
                "--opencv-laplacian-threshold", "--config"}

\* the value given with a threshold option when it is on the command line
OptionValue(flag) ==
    CASE flag = "--threshold" -> Rat(1, 2)
      [] flag = "--tenengrad-threshold" -> Rat(50, 1)
      [] flag = "--opencv-laplacian-threshold" -> Rat(10, 1)

\* conflicts_with / conflicts_with_all of the derive attributes: clap
\* rejects a command line that names two conflicting arguments.
Conflicts(args) ==
    \/ Cardinality(args \cap {"--file", "--synthetic-checkerboard",
                              "--synthetic-white", "-p"}) > 1
    \/ {"-b", "-s"} \subseteq args

\* the command lines the parser accepts
ArgvSets == {args \in SUBSET (Flags \cup TuningFlags) : ~Conflicts(args)}

\* A bool field is an ArgAction::SetTrue flag: true when the flag is given,
\* else its default_value_t.
SetTrue(present, default_value) == IF present THEN TRUE ELSE default_value

None == [some |-> FALSE, v |-> FZero]

Some(v) == [some |-> TRUE, v |-> v]

\* an Option<f64> argument: Some(value) when the option is given
OptionArg(args, flag) == IF flag \in args THEN Some(OptionValue(flag)) ELSE None

\* Option::or
Or(a, b) == IF a.some THEN a ELSE b

\* Option::unwrap_or
UnwrapOr(a, d) == IF a.some THEN a.v ELSE d

\* Cli::parse()
Cli_parse(args) ==
    [file |-> "--file" \in args,
     synthetic_checkerboard |-> SetTrue("--synthetic-checkerboard" \in args, FALSE),
     synthetic_white |-> SetTrue("--synthetic-white" \in args, FALSE),
     verbose |-> SetTrue("-v" \in args, FALSE),
     threshold |-> OptionArg(args, "--threshold"),
     blur |-> SetTrue("-b" \in args, TRUE),
     sharp |-> SetTrue("-s" \in args, FALSE),
     ascii |-> SetTrue("-a" \in args, FALSE),
     passthrough |-> SetTrue("-p" \in args, FALSE),
     tenengrad_threshold |-> OptionArg(args, "--tenengrad-threshold"),
     opencv_laplacian_threshold |-> OptionArg(args, "--opencv-laplacian-threshold"),
     config |-> "--config" \in args]

\* GrepfuzzConfig::default()
GrepfuzzConfig_default ==
    [laplacian_threshold |-> Some(Rat(1, 5)),
     tenengrad_threshold |-> Some(Rat(100, 1)),
     opencv_laplacian_threshold |-> Some(Rat(55, 1))]

\* The outcome of GrepfuzzConfig::from_file: an error (the file cannot be
\* read or parsed) or the DetectorConfig of the file, where a key the file
\* does not have is None.
FileErr == [ok |-> FALSE, detectors |-> GrepfuzzConfig_default]

FileOk(lt, tt, ot) ==
    [ok |-> TRUE,
     detectors |-> [laplacian_threshold |-> lt, tenengrad_threshold |-> tt,
                    opencv_laplacian_threshold |-> ot]]

\* the config files explored: unreadable, one with every key, one with the
\* Tenengrad key only
ConfigFiles ==
    {FileErr,
     FileOk(Some(Rat(3, 10)), Some(Rat(200, 1)), Some(Rat(60, 1))),
     FileOk(None, Some(Rat(200, 1)), None)}

\* main.rs lines 83-93: "Load config"
load_config(c, file) ==
    IF c.config
    THEN IF file.ok THEN file.detectors ELSE GrepfuzzConfig_default
    ELSE GrepfuzzConfig_default

\* main.rs: "Use config values unless overridden by CLI"
resolve_thresholds(c, config) ==
    [laplacian |-> UnwrapOr(Or(c.threshold, config.laplacian_threshold), Rat(1, 10)),
     tenengrad |-> UnwrapOr(Or(c.tenengrad_threshold, config.tenengrad_threshold),
                            Rat(1000, 1)),
     opencv_laplacian |->
         UnwrapOr(Or(c.opencv_laplacian_threshold, config.opencv_laplacian_threshold),
                  Rat(1, 10))]

\* let blur_mode = cli.blur || (!cli.blur && !cli.sharp);
blur_mode(c) == c.blur \/ (~c.blur /\ ~c.sharp)

\* if (blur_mode && is_blurry) || (!blur_mode && !is_blurry)
keeps(c, is_blurry) == (blur_mode(c) /\ is_blurry) \/ (~blur_mode(c) /\ ~is_blurry)

(***************************************************************************)
(* State                                                                   *)
(***************************************************************************)
VARIABLES
    \* library calls (SpecLib)
    build,       \* "debug": integer overflow checks on; "release": off
    detectors,   \* the detector list handed to the call
    call,        \* the entry point called and the image given, or "none"
    result,      \* what the call returned
    opencv,      \* TRUE when the OpenCV backend is there to be called
    suite,       \* "given": a list the caller wrote; "built": build_detectors
    calls,       \* the number of calls made
    first,       \* the first call made, the detector list it was given, what
                 \* it returned, and whether another image was given since
    analysis,    \* what analyze_blur_variance was given and returned
    \* one run of main (Spec)
    argv,        \* the flags on the command line
    isTty,       \* atty::is(Stream::Stdin)
    cli,         \* Cli::parse()
    thresholds,  \* laplacian_threshold, tenengrad_threshold, opencv_laplacian_threshold
    input,       \* what stdin held when the run began
    stdin,       \* what stdin still holds
    stdout,      \* the chunks written to stdout, in order
    stderr,      \* the diagnostics written to stderr, in order
    buffer,      \* the loop's record buffer
    pc,          \* where main is
    exit,        \* "running", "ok" (Ok(())), "err" (Err), "panic"
    cause,       \* why main returned Err
    preloaded,   \* the bytes load_image(ImageSource::Stdin) took from stdin
    configFile,  \* what GrepfuzzConfig::from_file finds at the --config path
    log          \* per record read by the path loop: what became of it

libVars == <<build, detectors, call, result, opencv, suite, calls, first, analysis>>

mainVars == <<argv, isTty, cli, thresholds, input, stdin, stdout, stderr, buffer, pc,
              exit, cause, preloaded, configFile, log>>

vars == <<build, detectors, call, result, opencv, suite, calls, first, analysis, argv, isTty, cli, thresholds, input, stdin,
          stdout, stderr, buffer, pc, exit, cause, preloaded, configFile, log>>

\* A chunk of stdout: the raw bytes of a write_all, or a block of text
\* printed by println! (its kind and the path it names).
Raw(bytes) == [fmt |-> "raw", data |-> bytes]

Text(kind, bytes) == [fmt |-> kind, data |-> bytes]

\* eprintln!("Error processing {}: {}", path_str, e)
Diagnostic(chars) == [msg |-> "Error processing", path |-> chars]

\* eprintln!("Failed to load config: {}. Using defaults.", e)
ConfigDiagnostic == [msg |-> "Failed to load config", path |-> <<>>]

LogEntry(rec, ev, is_blurry) == [rec |-> rec, ev |-> ev, blurry |-> is_blurry]

NoCall == [entry |-> "none", img |-> OpenErr.img]

First(c, dets, res, between) ==
    [call |-> c, detectors |-> dets, result |-> res, between |-> between]

NoFirst == First(NoCall, <<>>, Failed, FALSE)

Analysis(threshold, d) ==
    [threshold |-> threshold, panic |-> d.panic, value |-> d.value,
     is_blurry |-> d.is_blurry]

NoAnalysis == Analysis(FZero, Panic)

NoCli == Cli_parse({})

NoThresholds == resolve_thresholds(NoCli, GrepfuzzConfig_default)

(***************************************************************************)
(* main()                                                                  *)
(***************************************************************************)
\* the files image::open may find: images of positive area (the decoders
\* reject zero dimensions)
DiskImages == {MkImage(k, MaxDim, MaxDim) : k \in {"white", "split"}}

\* image::load_from_memory: a buffer can only decode when it starts with
\* an image signature (here the first byte of the PNG signature)
CanDecode(bytes) == bytes # <<>> /\ bytes[1] = 137

\* What stdin holds: bytes up to its end, or a first burst of at most one
\* byte, an end-of-file condition, and more bytes.
FirstBursts == {<<>>} \cup {<<b>> : b \in Bytes}

StdinInputs ==
    SeqsUpTo(Bytes, MaxLen)
      \cup {a \o <<EofMark>> \o b : a \in FirstBursts, b \in SeqsUpTo(Bytes, MaxLen)}

ReadsStdin(args) ==
    args \cap {"--file", "--synthetic-checkerboard", "--synthetic-white"} = {}

\* main before its first statement
MainStart ==
    /\ input = stdin
    /\ cli = NoCli
    /\ thresholds = NoThresholds
    /\ stdout = <<>>
    /\ stderr = <<>>
    /\ buffer = <<>>
    /\ pc = "start"
    /\ exit = "running"
    /\ cause = "none"
    /\ preloaded = <<>>
    /\ log = <<>>

\* The runs explored.  A mode that never reads stdin is given an empty one;
\* -v is given where it is read (the synthetic and file modes); a terminal
\* supplies at most one byte.
MainInit ==
    /\ argv \in ArgvSets
    /\ argv \cap TuningFlags = {}
    /\ configFile = FileErr
    /\ isTty \in BOOLEAN
    /\ stdin \in StdinInputs
    /\ ~ReadsStdin(argv) => stdin = <<>>
    /\ ReadsStdin(argv) => "-v" \notin argv
    /\ (ReadsStdin(argv) /\ isTty) => Len(stdin) <= 1
    /\ MainStart

\* The runs explored with threshold options and a config file: any flags
\* but -v and -b, any outcome of loading the file, and a few inputs: none,
\* an image signature, an image followed by a stream of three records, and
\* a stream of one record.
ConfigStdin ==
    {<<>>, <<137>>, <<137, EofMark, 97, NUL, 97, NUL, 195>>, <<97, NUL>>}

ConfigInit ==
    /\ argv \in ArgvSets
    /\ argv \cap {"-v", "-b"} = {}
    /\ configFile \in ConfigFiles
    /\ "--config" \notin argv => configFile = FileErr
    /\ isTty \in BOOLEAN
    /\ stdin \in ConfigStdin
    /\ ~ReadsStdin(argv) => stdin = <<>>
    /\ (ReadsStdin(argv) /\ isTty) => Len(stdin) <= 1
    /\ MainStart

Return(status, why) ==
    /\ pc' = "done"
    /\ exit' = status
    /\ cause' = why

\* the config failure printed with println!
Start_prints ==
    /\ pc = "start"
    /\ cli' = Cli_parse(argv)
    /\ thresholds' = resolve_thresholds(Cli_parse(argv),
                                        load_config(Cli_parse(argv), configFile))
    /\ stdout' = IF Cli_parse(argv).config /\ ~configFile.ok
                 THEN Append(stdout, Text("diagnostic", <<>>))
                 ELSE stdout
    /\ pc' = "synthetic"
    /\ UNCHANGED <<argv, isTty, stdin, stderr, buffer, exit, cause,
                   preloaded, log>>
    /\ UNCHANGED <<libVars, input, configFile>>

\* lines 79-98: parse the command line, load the configuration, resolve
\* the thresholds
Start ==
    /\ pc = "start"
    /\ cli' = Cli_parse(argv)
    /\ thresholds' = resolve_thresholds(Cli_parse(argv),
                                        load_config(Cli_parse(argv), configFile))
    /\ stderr' = IF Cli_parse(argv).config /\ ~configFile.ok
                 THEN Append(stderr, ConfigDiagnostic)
                 ELSE stderr
    /\ pc' = "synthetic"
    /\ UNCHANGED <<argv, isTty, stdin, stdout, buffer, exit, cause,
                   preloaded, log>>
    /\ UNCHANGED <<libVars, input, configFile>>

\* lines 100-124: the synthetic images
Synthetic ==
    /\ pc = "synthetic"
    /\ cli.synthetic_checkerboard \/ cli.synthetic_white
    /\ stdout' = Append(stdout,
           Text(IF cli.verbose THEN "debug" ELSE "synthetic",
                IF cli.synthetic_checkerboard THEN <<67>> ELSE <<87>>))
    /\ Return("ok", "none")
    /\ UNCHANGED <<argv, isTty, cli, thresholds, stdin, stderr, buffer, preloaded, log>>
    /\ UNCHANGED <<libVars, input, configFile>>

\* lines 127-128: load_image(ImageSource::File(filename))?
PreloadFile ==
    /\ pc = "synthetic"
    /\ ~(cli.synthetic_checkerboard \/ cli.synthetic_white)
    /\ cli.file
    /\ \/ /\ pc' = "dispatch"
          /\ UNCHANGED <<exit, cause>>
       \/ Return("err", "load")
    /\ UNCHANGED <<argv, isTty, cli, thresholds, stdin, stdout, stderr, buffer,
                   preloaded, log>>
    /\ UNCHANGED <<libVars, input, configFile>>

\* lines 129-131: load_image(ImageSource::Stdin)? reads stdin to its end
\* and decodes the bytes as one image
PreloadStdin ==
    /\ pc = "synthetic"
    /\ ~(cli.synthetic_checkerboard \/ cli.synthetic_white)
    /\ ~cli.file
    /\ LET r == read_to_end(stdin)
       IN  /\ stdin' = r.rest
           /\ preloaded' = r.buf
           /\ \/ /\ CanDecode(r.buf)
                 /\ pc' = "dispatch"
                 /\ UNCHANGED <<exit, cause>>
              \/ Return("err", "load")
    /\ UNCHANGED <<argv, isTty, cli, thresholds, stdout, stderr, buffer, log>>
    /\ UNCHANGED <<libVars, input, configFile>>

\* read_to_end fails: "Failed to read stdin"
PreloadReadFail ==
    /\ pc = "synthetic"
    /\ ~(cli.synthetic_checkerboard \/ cli.synthetic_white)
    /\ ~cli.file
    /\ Return("err", "read")
    /\ UNCHANGED <<argv, isTty, cli, thresholds, stdin, stdout, stderr, buffer,
                   preloaded, log>>
    /\ UNCHANGED <<libVars, input, configFile>>

\* lines 151-156: no file argument and stdin is a terminal: print the help
Help ==
    /\ pc = "dispatch"
    /\ ~cli.file /\ isTty
    /\ stdout' = Append(stdout, Text("help", <<>>))
    /\ Return("ok", "none")
    /\ UNCHANGED <<argv, isTty, cli, thresholds, stdin, stderr, buffer, preloaded, log>>
    /\ UNCHANGED <<libVars, input, configFile>>

\* lines 159-186: classify the one file named on the command line
FileMode ==
    /\ pc = "dispatch"
    /\ cli.file
    /\ \E opened \in {OpenErr} \cup {Opened(i) : i \in DiskImages},
          metadata_ok \in BOOLEAN :
         LET dets == build_detectors(thresholds.laplacian, thresholds.tenengrad,
                                     thresholds.opencv_laplacian)
             res == main_process_image(opened, metadata_ok, dets, "release", TRUE)
         IN  IF res.status = "ok"
             THEN /\ stdout' = Append(stdout,
                        Text(IF cli.verbose \/ cli.ascii THEN "verbose" ELSE "file",
                             <<102>>))
                  /\ UNCHANGED stderr
             ELSE /\ stderr' = Append(stderr, Diagnostic(<<102>>))
                  /\ UNCHANGED stdout
    /\ Return("ok", "none")
    /\ UNCHANGED <<argv, isTty, cli, thresholds, stdin, buffer, preloaded, log>>
    /\ UNCHANGED <<libVars, input, configFile>>

\* lines 189-204: the passthrough loop
EnterPassthrough ==
    /\ pc = "dispatch"
    /\ ~cli.file /\ ~isTty
    /\ cli.passthrough
    /\ pc' = "passthrough"
    /\ UNCHANGED <<argv, isTty, cli, thresholds, stdin, stdout, stderr, buffer,
                   exit, cause, preloaded, log>>
    /\ UNCHANGED <<libVars, input, configFile>>

PassthroughCopy ==
    /\ pc = "passthrough"
    /\ LET r == read_until(stdin)
       IN  /\ Len(r.buf) # 0
           /\ stdin' = r.rest
           /\ buffer' = r.buf
           /\ \/ /\ stdout' = Append(stdout, Raw(r.buf))
                 /\ UNCHANGED <<pc, exit, cause>>
              \/ /\ UNCHANGED stdout
                 /\ Return("err", "write")
    /\ UNCHANGED <<argv, isTty, cli, thresholds, stderr, preloaded, log>>
    /\ UNCHANGED <<libVars, input, configFile>>

PassthroughEnd ==
    /\ pc = "passthrough"
    /\ LET r == read_until(stdin)
       IN  /\ Len(r.buf) = 0
           /\ stdin' = r.rest
    /\ buffer' = <<>>
    /\ Return("ok", "none")
    /\ UNCHANGED <<argv, isTty, cli, thresholds, stdout, stderr, preloaded, log>>
    /\ UNCHANGED <<libVars, input, configFile>>

\* read_until(...)? fails in either loop
ReadFail ==
    /\ pc \in {"passthrough", "stream"}
    /\ buffer' = <<>>
    /\ Return("err", "read")
    /\ UNCHANGED <<argv, isTty, cli, thresholds, stdin, stdout, stderr, preloaded, log>>
    /\ UNCHANGED <<libVars, input, configFile>>

\* lines 206-246: the loop over NUL-delimited paths
EnterStream ==
    /\ pc = "dispatch"
    /\ ~cli.file /\ ~isTty
    /\ ~cli.passthrough
    /\ pc' = "stream"
    /\ UNCHANGED <<argv, isTty, cli, thresholds, stdin, stdout, stderr, buffer,
                   exit, cause, preloaded, log>>
    /\ UNCHANGED <<libVars, input, configFile>>

\* the reader takes everything stdin holds and hands out the first record
StreamRead_ahead ==
    /\ pc = "stream"
    /\ LET r == read_until(stdin)
       IN  /\ Len(r.buf) # 0
           /\ stdin' = read_to_end(r.rest).rest
           /\ buffer' = pop_nul(r.buf)
    /\ pc' = "record"
    /\ UNCHANGED <<argv, isTty, cli, thresholds, stdout, stderr, exit, cause,
                   preloaded, log>>
    /\ UNCHANGED <<libVars, input, configFile>>

\* lines 212-219: read one record and drop its trailing NUL
StreamRead ==
    /\ pc = "stream"
    /\ LET r == read_until(stdin)
       IN  /\ Len(r.buf) # 0
           /\ stdin' = r.rest
           /\ buffer' = pop_nul(r.buf)
    /\ pc' = "record"
    /\ UNCHANGED <<argv, isTty, cli, thresholds, stdout, stderr, exit, cause,
                   preloaded, log>>
    /\ UNCHANGED <<libVars, input, configFile>>

\* the zero-byte read met with `continue` instead of `break`
StreamEnd_continues ==
    /\ pc = "stream"
    /\ LET r == read_until(stdin)
       IN  /\ Len(r.buf) = 0
           /\ stdin' = r.rest
    /\ buffer' = <<>>
    /\ UNCHANGED <<pc, exit, cause>>
    /\ UNCHANGED <<argv, isTty, cli, thresholds, stdout, stderr, preloaded, log>>
    /\ UNCHANGED <<libVars, input, configFile>>

\* lines 214-216 and 245: bytes_read == 0 ends the loop, main returns Ok(())
StreamEnd ==
    /\ pc = "stream"
    /\ LET r == read_until(stdin)
       IN  /\ Len(r.buf) = 0
           /\ stdin' = r.rest
    /\ buffer' = <<>>
    /\ Return("ok", "none")
    /\ UNCHANGED <<argv, isTty, cli, thresholds, stdout, stderr, preloaded, log>>
    /\ UNCHANGED <<libVars, input, configFile>>

\* the skip reported on stderr like a failed image
StreamSkip_reports ==
    /\ pc = "record"
    /\ ~from_utf8(buffer).ok
    /\ stderr' = Append(stderr, Diagnostic(<<>>))
    /\ log' = Append(log, LogEntry(buffer, "skipped", FALSE))
    /\ pc' = "stream"
    /\ UNCHANGED <<argv, isTty, cli, thresholds, stdin, stdout, buffer,
                   exit, cause, preloaded>>
    /\ UNCHANGED <<libVars, input, configFile>>

\* lines 220-223: Err(_) => continue
StreamSkip ==
    /\ pc = "record"
    /\ ~from_utf8(buffer).ok
    /\ log' = Append(log, LogEntry(buffer, "skipped", FALSE))
    /\ pc' = "stream"
    /\ UNCHANGED <<argv, isTty, cli, thresholds, stdin, stdout, stderr, buffer,
                   exit, cause, preloaded>>
    /\ UNCHANGED <<libVars, input, configFile>>

\* The outcomes of process_image for a path: the empty path names no file.
OpenOutcomes(path_str) ==
    IF path_str = <<>> THEN {OpenErr}
    ELSE {OpenErr} \cup {Opened(i) : i \in DiskImages}

\* line 225: process_image on the path of the record
Classify(path_str, opened, metadata_ok) ==
    main_process_image(opened, metadata_ok,
        build_detectors(thresholds.laplacian, thresholds.tenengrad,
                        thresholds.opencv_laplacian),
        "release", TRUE)

\* the error propagated with ? instead of reported
StreamError_propagates ==
    /\ pc = "record"
    /\ from_utf8(buffer).ok
    /\ LET path_str == from_utf8(buffer).chars
       IN  \E opened \in OpenOutcomes(path_str), metadata_ok \in BOOLEAN :
             Classify(path_str, opened, metadata_ok).status = "err"
    /\ log' = Append(log, LogEntry(buffer, "error", FALSE))
    /\ Return("err", "load")
    /\ UNCHANGED <<argv, isTty, cli, thresholds, stdin, stdout, stderr, buffer,
                   preloaded>>
    /\ UNCHANGED <<libVars, input, configFile>>

\* lines 240-242: the image cannot be processed: a diagnostic, next record
StreamError ==
    /\ pc = "record"
    /\ from_utf8(buffer).ok
    /\ LET path_str == from_utf8(buffer).chars
       IN  \E opened \in OpenOutcomes(path_str), metadata_ok \in BOOLEAN :
             /\ Classify(path_str, opened, metadata_ok).status = "err"
             /\ stderr' = Append(stderr, Diagnostic(path_str))
    /\ log' = Append(log, LogEntry(buffer, "error", FALSE))
    /\ pc' = "stream"
    /\ UNCHANGED <<argv, isTty, cli, thresholds, stdin, stdout, buffer, exit,
                   cause, preloaded>>
    /\ UNCHANGED <<libVars, input, configFile>>

\* lines 226-238, the filter rejects the record: nothing is written
StreamDrop ==
    /\ pc = "record"
    /\ from_utf8(buffer).ok
    /\ LET path_str == from_utf8(buffer).chars
       IN  \E opened \in OpenOutcomes(path_str), metadata_ok \in BOOLEAN :
             LET res == Classify(path_str, opened, metadata_ok)
             IN  /\ res.status = "ok"
                 /\ ~keeps(cli, res.overall)
                 /\ log' = Append(log, LogEntry(buffer, "dropped", res.overall))
    /\ pc' = "stream"
    /\ UNCHANGED <<argv, isTty, cli, thresholds, stdin, stdout, stderr, buffer,
                   exit, cause, preloaded>>
    /\ UNCHANGED <<libVars, input, configFile>>

\* lines 234-237: the record is kept, terse output: the path, then a NUL
StreamEmitTerse ==
    /\ pc = "record"
    /\ from_utf8(buffer).ok
    /\ ~cli.ascii
    /\ LET path_str == from_utf8(buffer).chars
       IN  \E opened \in OpenOutcomes(path_str), metadata_ok \in BOOLEAN :
             LET res == Classify(path_str, opened, metadata_ok)
             IN  /\ res.status = "ok"
                 /\ keeps(cli, res.overall)
                 /\ log' = Append(log, LogEntry(buffer, "kept", res.overall))
                 /\ \/ /\ stdout' = stdout \o <<Raw(as_bytes(path_str)), Raw(<<NUL>>)>>
                       /\ pc' = "stream"
                       /\ UNCHANGED <<exit, cause>>
                    \/ /\ stdout' = stdout
                       /\ Return("err", "write")
                    \/ /\ stdout' = Append(stdout, Raw(as_bytes(path_str)))
                       /\ Return("err", "write")
    /\ UNCHANGED <<argv, isTty, cli, thresholds, stdin, stderr, buffer, preloaded>>
    /\ UNCHANGED <<libVars, input, configFile>>

\* lines 228-233: the record is kept, -a: the block printed by println!
\* (which panics when stdout cannot be written)
StreamEmitAscii ==
    /\ pc = "record"
    /\ from_utf8(buffer).ok
    /\ cli.ascii
    /\ LET path_str == from_utf8(buffer).chars
       IN  \E opened \in OpenOutcomes(path_str), metadata_ok \in BOOLEAN :
             LET res == Classify(path_str, opened, metadata_ok)
             IN  /\ res.status = "ok"
                 /\ keeps(cli, res.overall)
                 /\ log' = Append(log, LogEntry(buffer, "kept", res.overall))
                 /\ \/ /\ stdout' = Append(stdout, Text("ascii", as_bytes(path_str)))
                       /\ pc' = "stream"
                       /\ UNCHANGED <<exit, cause>>
                    \/ /\ stdout' = stdout
                       /\ Return("panic", "write")
    /\ UNCHANGED <<argv, isTty, cli, thresholds, stdin, stderr, buffer, preloaded>>
    /\ UNCHANGED <<libVars, input, configFile>>

MainNext ==
    \/ Start
    \/ Synthetic
    \/ PreloadFile
    \/ PreloadStdin
    \/ PreloadReadFail
    \/ Help
    \/ FileMode
    \/ EnterPassthrough
    \/ PassthroughCopy
    \/ PassthroughEnd
    \/ ReadFail
    \/ EnterStream
    \/ StreamRead
    \/ StreamEnd
    \/ StreamSkip
    \/ StreamError
    \/ StreamDrop
    \/ StreamEmitTerse
    \/ StreamEmitAscii

(***************************************************************************)
(* Library calls                                                           *)
(***************************************************************************)
\* the thresholds explored per detector: zero and the configured default,
\* and for the OpenCV detector the default of the Laplacian detector too
ThresholdChoices(kind) ==
    CASE kind = "Laplacian" -> {FZero, Rat(1, 5)}
      [] kind = "Tenengrad" -> {FZero, Rat(100, 1)}
      [] kind = "OpenCvLaplacian" -> {FZero, Rat(55, 1), Rat(1, 5)}

AllDetectors == UNION {{Detector(k, t) : t \in ThresholdChoices(k)} : k \in Kinds}

\* every ordered list of detectors of distinct types, the empty one included
DetectorLists ==
    {s \in SeqsUpTo(AllDetectors, Cardinality(Kinds)) :
        \A i, j \in 1..Len(s) : i # j => s[i].kind # s[j].kind}

PositiveImages == {i \in Images : ~ZeroArea(i)}

Called(entry, image) == [entry |-> entry, img |-> image]

MainIdle ==
    /\ argv = {}
    /\ isTty = FALSE
    /\ input = <<>>
    /\ stdin = <<>>
    /\ cli = NoCli
    /\ thresholds = NoThresholds
    /\ stdout = <<>>
    /\ stderr = <<>>
    /\ buffer = <<>>
    /\ pc = "idle"
    /\ exit = "running"
    /\ cause = "none"
    /\ preloaded = <<>>
    /\ configFile = FileErr
    /\ log = <<>>

LibInit ==
    /\ build \in {"debug", "release"}
    /\ detectors \in DetectorLists
    /\ call = NoCall
    /\ result = Failed
    /\ opencv \in BOOLEAN
    /\ suite = "given"
    /\ calls = 0
    /\ first = NoFirst
    /\ analysis = NoAnalysis
    /\ MainIdle

\* build_detectors(..) where no list was given
BuildSuite ==
    /\ call.entry = "none"
    /\ suite = "given"
    /\ detectors = <<>>
    /\ \E lt \in ThresholdChoices("Laplacian"), tt \in ThresholdChoices("Tenengrad"),
          ot \in ThresholdChoices("OpenCvLaplacian") :
         detectors' = build_detectors(lt, tt, ot)
    /\ suite' = "built"
    /\ UNCHANGED <<build, call, result, opencv, calls, first, analysis>>
    /\ UNCHANGED mainVars

\* process_image_buffer(&img, &detectors) on any ImageBuffer
CallProcessImageBuffer ==
    /\ call.entry = "none"
    /\ \E image \in Images :
         /\ call' = Called("process_image_buffer", image)
         /\ result' = process_image_buffer(image, detectors, build, opencv)
         /\ first' = First(Called("process_image_buffer", image), detectors,
                            process_image_buffer(image, detectors, build, opencv), FALSE)
    /\ calls' = 1
    /\ UNCHANGED <<build, detectors, opencv, suite, analysis>>
    /\ UNCHANGED mainVars

\* lib.rs process_image(path, &detectors)
CallProcessImage ==
    /\ call.entry = "none"
    /\ \E opened \in {OpenErr} \cup {Opened(i) : i \in PositiveImages},
          metadata_ok \in BOOLEAN :
         /\ call' = Called("process_image", opened.img)
         /\ result' = process_image(opened, metadata_ok, detectors, build, opencv)
         /\ first' = First(Called("process_image", opened.img), detectors,
                            process_image(opened, metadata_ok, detectors, build, opencv), FALSE)
    /\ calls' = 1
    /\ UNCHANGED <<build, detectors, opencv, suite, analysis>>
    /\ UNCHANGED mainVars

\* main.rs process_image(path, &detectors)
CallMainProcessImage ==
    /\ call.entry = "none"
    /\ \E opened \in {OpenErr} \cup {Opened(i) : i \in PositiveImages},
          metadata_ok \in BOOLEAN :
         /\ call' = Called("main_process_image", opened.img)
         /\ result' = main_process_image(opened, metadata_ok, detectors, build, opencv)
         /\ first' = First(Called("main_process_image", opened.img), detectors,
                            main_process_image(opened, metadata_ok, detectors, build, opencv), FALSE)
    /\ calls' = 1
    /\ UNCHANGED <<build, detectors, opencv, suite, analysis>>
    /\ UNCHANGED mainVars

\* the orders of n positions: the permutations of 1..n
Orders(n) ==
    {p \in [1..n -> 1..n] : \A i, j \in 1..n : p[i] = p[j] => i = j}

\* process_image_buffer(&img, &reordered) after process_image_buffer(&img,
\* &detectors): the same detectors in another order
CallProcessImageBufferReordered ==
    /\ calls = 1
    /\ call.entry = "process_image_buffer"
    /\ \E p \in Orders(Len(detectors)) :
         LET reordered == [i \in 1..Len(detectors) |-> detectors[p[i]]]
         IN  /\ reordered # detectors
             /\ detectors' = reordered
             /\ result' = process_image_buffer(call.img, reordered, build, opencv)
    /\ calls' = 2
    /\ UNCHANGED <<build, call, opencv, suite, first, analysis>>
    /\ UNCHANGED mainVars

LibNext ==
    \/ BuildSuite
    \/ CallProcessImageBufferReordered
    \/ CallProcessImageBuffer
    \/ CallProcessImage
    \/ CallMainProcessImage

SpecLib == LibInit /\ [][LibNext]_vars

(***************************************************************************)
(* One detector list reused for several images, as main reuses the list    *)
(* it builds for every record of the stream.                               *)
(***************************************************************************)
\* the suites build_detectors returns for the thresholds explored
BuiltSuites ==
    {build_detectors(lt, tt, ot) :
        lt \in ThresholdChoices("Laplacian"), tt \in ThresholdChoices("Tenengrad"),
        ot \in ThresholdChoices("OpenCvLaplacian")}

\* the images evaluated again and again: every pattern at the largest size,
\* and an image of zero width
RepeatImages ==
    {MkImage(k, MaxDim, MaxDim) : k \in Patterns} \cup {MkImage("white", 0, MaxDim)}

RepeatInit ==
    /\ build \in {"debug", "release"}
    /\ detectors \in BuiltSuites
    /\ call = NoCall
    /\ result = Failed
    /\ opencv = TRUE
    /\ suite = "built"
    /\ calls = 0
    /\ first = NoFirst
    /\ analysis = NoAnalysis
    /\ MainIdle

\* a detector that takes the value it last computed for its threshold
Evaluate_adapts ==
    /\ calls < MaxCalls
    /\ \E image \in RepeatImages :
         LET res == process_image_buffer(image, detectors, build, opencv)
         IN  /\ call' = Called("process_image_buffer", image)
             /\ result' = res
             /\ first' = IF calls = 0
                         THEN First(Called("process_image_buffer", image), detectors,
                                    res, FALSE)
                         ELSE [first EXCEPT !.between = @ \/ image # first.call.img]
             /\ detectors' = IF res.status # "ok" THEN detectors
                             ELSE [i \in 1..Len(detectors) |->
                                     Detector(detectors[i].kind, res.readings[i].value)]
    /\ calls' = calls + 1
    /\ UNCHANGED <<build, opencv, suite, analysis>>
    /\ UNCHANGED mainVars

\* process_image_buffer(&img, &detectors), once more with the same list:
\* detect takes &self and the detectors have no field but the threshold
Evaluate ==
    /\ calls < MaxCalls
    /\ \E image \in RepeatImages :
         LET res == process_image_buffer(image, detectors, build, opencv)
         IN  /\ call' = Called("process_image_buffer", image)
             /\ result' = res
             /\ first' = IF calls = 0
                         THEN First(Called("process_image_buffer", image), detectors,
                                    res, FALSE)
                         ELSE [first EXCEPT !.between = @ \/ image # first.call.img]
             /\ detectors' = detectors
    /\ calls' = calls + 1
    /\ UNCHANGED <<build, opencv, suite, analysis>>
    /\ UNCHANGED mainVars

RepeatNext == Evaluate

SpecRepeat == RepeatInit /\ [][RepeatNext]_vars

(***************************************************************************)
(* analyze_blur_variance, as main and the tests call it                    *)
(***************************************************************************)
\* the thresholds of the tests (0.1, 100.0) and zero
AnalysisThresholds == {FZero, Rat(1, 10), Rat(100, 1)}

AnalyzeInit ==
    /\ build \in {"debug", "release"}
    /\ detectors = <<>>
    /\ call = NoCall
    /\ result = Failed
    /\ opencv = TRUE
    /\ suite = "given"
    /\ calls = 0
    /\ first = NoFirst
    /\ analysis = NoAnalysis
    /\ MainIdle

\* analyze_blur_variance(&img, threshold)
CallAnalyzeBlurVariance ==
    /\ call.entry = "none"
    /\ \E image \in Images \cup TestImages, threshold \in AnalysisThresholds :
         /\ call' = Called("analyze_blur_variance", image)
         /\ analysis' = Analysis(threshold, analyze_blur_variance(image, threshold, build))
    /\ calls' = 1
    /\ UNCHANGED <<build, detectors, result, opencv, suite, first>>
    /\ UNCHANGED mainVars

AnalyzeNext == CallAnalyzeBlurVariance

SpecAnalyze == AnalyzeInit /\ [][AnalyzeNext]_vars

LibIdle ==
    /\ build = "release"
    /\ detectors = <<>>
    /\ call = NoCall
    /\ result = Failed
    /\ opencv = TRUE
    /\ suite = "given"
    /\ calls = 0
    /\ first = NoFirst
    /\ analysis = NoAnalysis

Init == MainInit /\ LibIdle

Next == MainNext

Spec == Init /\ [][Next]_vars

\* main run with threshold options and a config file
ConfigRunInit == ConfigInit /\ LibIdle

SpecConfig == ConfigRunInit /\ [][Next]_vars

\* a step of main in which no read and no write fails
Progress == Next /\ cause' = "none"

\* one run of main that keeps running: main is one sequential thread and
\* each statement returns (a read of a finite stream returns, each image
\* decode returns), so main takes its next step whenever it has one.  That
\* a read or a write fails is up to the environment: it may happen, it is
\* never bound to.
SpecLive == Init /\ [][Next]_vars /\ WF_vars(Progress)


(***************************************************************************)
(* Properties of the library calls (SpecLib)                               *)
(***************************************************************************)
\* the exact order of two values, by cross-multiplication
Below(v, t) == ~v.nan /\ ~t.nan /\ v.num * t.den < t.num * v.den

SameValue(v, t) == ~v.nan /\ ~t.nan /\ v.num * t.den = t.num * v.den

CallReturned == call.entry # "none" /\ result.status = "ok"

\* C1: the overall verdict returned by process_image (lib.rs and main.rs)
\* and by process_image_buffer is the conjunction of the is_blurry flags of
\* the returned readings, one reading per detector; with an empty detector
\* list the verdict is true (blurry).
C1_OverallIsConjunction ==
    CallReturned =>
        /\ Len(result.readings) = Len(detectors)
        /\ result.overall = (\A i \in 1..Len(result.readings) :
                                result.readings[i].is_blurry)
        /\ (detectors = <<>> => result.overall)

\* C1 witness: a call returned readings that disagree, and the verdict is
\* not blurry.
C1_Witness ==
    /\ CallReturned
    /\ call.entry = "process_image_buffer"
    /\ ~result.overall
    /\ \E i, j \in 1..Len(result.readings) :
          result.readings[i].is_blurry /\ ~result.readings[j].is_blurry

\* C2: for each of the three detectors and every image, detect returns
\* is_blurry exactly when value < threshold of the detector; a value equal
\* to the threshold is classified sharp.
C2_BlurryIffBelowThreshold ==
    CallReturned =>
        \A i \in 1..Len(result.readings) :
            LET r == result.readings[i]
            IN  /\ r.is_blurry = Below(r.value, detectors[i].threshold)
                /\ (SameValue(r.value, detectors[i].threshold) => ~r.is_blurry)

\* C2 witness: all three detectors ran on one image, each with a value equal
\* to its threshold, and each called the image sharp.
C2_Witness ==
    /\ CallReturned
    /\ Len(result.readings) = 3
    /\ \A i \in 1..3 :
          /\ SameValue(result.readings[i].value, detectors[i].threshold)
          /\ ~result.readings[i].is_blurry

\* C10: an image of zero area (width 0 or height 0) fails before any metric
\* value is produced: no call that runs a detector on such an image returns
\* a result with a verdict, and no reading carries the NaN of a division by
\* the zero pixel count.
C10_ZeroAreaFails ==
    (call.entry # "none" /\ ZeroArea(call.img) /\ detectors # <<>>) =>
        /\ result.status # "ok"
        /\ \A i \in 1..Len(result.readings) : ~result.readings[i].value.nan

\* C11: with the OpenCV backend unavailable, build_detectors yields a suite
\* without the OpenCV detector, and no call that evaluates an opened image
\* through the built suite fails because of the missing backend.
C11_SuiteWithoutMissingBackend ==
    (suite = "built" /\ ~opencv) =>
        /\ \A i \in 1..Len(detectors) : detectors[i].kind # "OpenCvLaplacian"
        /\ (call.entry # "none" /\ ~ZeroArea(call.img) => result.status # "panic")

\* C18: process_image_buffer on an image with a permutation of a detector
\* list returns the overall verdict it returns with the list itself, and
\* one reading per detector in the order of the list given: the readings
\* are those of the first call, permuted the same way.
C18_OrderDoesNotChangeVerdict ==
    /\ (call.entry = "process_image_buffer" /\ result.status = "ok") =>
          /\ Len(result.readings) = Len(detectors)
          /\ \A i \in 1..Len(detectors) :
                /\ result.readings[i].name = name(detectors[i])
                /\ result.readings[i].threshold = detectors[i].threshold
    /\ calls = 2 =>
          /\ result.status = first.result.status
          /\ result.overall = first.result.overall
          /\ \E p \in Orders(Len(detectors)) :
                /\ detectors = [i \in 1..Len(detectors) |-> first.detectors[p[i]]]
                /\ (result.status = "ok" =>
                      result.readings =
                          [i \in 1..Len(detectors) |-> first.result.readings[p[i]]])

\* C18 witness: three detectors whose readings disagree were run on an
\* image in one order and then in another.
C18_Witness ==
    /\ calls = 2
    /\ Len(detectors) = 3
    /\ detectors # first.detectors
    /\ result.status = "ok"
    /\ result.readings[1].is_blurry # result.readings[3].is_blurry
    /\ result.readings[1].is_blurry # first.result.readings[1].is_blurry

\* the thresholds against which two values are compared
ProbeThresholds == {Rat(1, 10), Rat(1, 5), Rat(55, 1)}

\* C16: for every image, the value of the OpenCV Laplacian detector and
\* the value of the Laplacian-variance detector agree (they lie on the same
\* side of every threshold), and with equal thresholds both detectors
\* return the same is_blurry.
C16_OpenCvMatchesLaplacian ==
    CallReturned =>
        \A i, j \in 1..Len(result.readings) :
            (detectors[i].kind = "Laplacian" /\ detectors[j].kind = "OpenCvLaplacian") =>
                /\ \A t \in ProbeThresholds :
                      FLt(result.readings[i].value, t) = FLt(result.readings[j].value, t)
                /\ (detectors[i].threshold = detectors[j].threshold =>
                      result.readings[i].is_blurry = result.readings[j].is_blurry)

\* C20: every reading returned by process_image (lib.rs and main.rs) and
\* by process_image_buffer records the threshold of the detector that
\* produced it, whichever of the three kinds it is, so that the reading's
\* is_blurry is value < the recorded threshold; none records the 0.0 of
\* the fall-through.
C20_ReadingCarriesDetectorThreshold ==
    CallReturned =>
        \A i \in 1..Len(result.readings) :
            LET r == result.readings[i]
            IN  /\ r.threshold = detectors[i].threshold
                /\ r.is_blurry = Below(r.value, r.threshold)

Analyzed == call.entry = "analyze_blur_variance"

Uniform(img) == \A i \in 1..Len(img.px) : img.px[i] = img.px[1]

\* C12: for every non-empty image whose pixels all have the same value,
\* analyze_blur_variance returns the variance 0 and classifies the image as
\* blurry for every positive threshold, 100.0 among them.
C12_UniformImageIsBlurry ==
    (Analyzed /\ ~ZeroArea(call.img) /\ Uniform(call.img)) =>
        /\ ~analysis.panic
        /\ SameValue(analysis.value, FZero)
        /\ (Below(FZero, analysis.threshold) => analysis.is_blurry)

\* C12 witness: the solid white image of the test, at threshold 100.0, was
\* classified blurry.
C12_Witness ==
    /\ Analyzed
    /\ call.img = from_white(TestDim, TestDim)
    /\ analysis.threshold = Rat(100, 1)
    /\ analysis.is_blurry

\* C13: for the checkerboard of the tests with blocks of side 1 and of side
\* 10, analyze_blur_variance at threshold 0.1 returns a variance not below
\* the threshold and classifies the image as sharp.
C13_CheckerboardIsSharp ==
    (Analyzed /\ analysis.threshold = Rat(1, 10)
       /\ call.img \in {from_checkerboard(TestDim, TestDim),
                        MkImage("blocks", TestDim, TestDim)}) =>
        /\ ~analysis.panic
        /\ ~Below(analysis.value, analysis.threshold)
        /\ ~analysis.value.nan
        /\ ~analysis.is_blurry

\* C13 witness: the checkerboard of blocks of side 10 was analyzed at
\* threshold 0.1 and called sharp, with a variance below 1.
C13_Witness ==
    /\ Analyzed
    /\ call.img = MkImage("blocks", TestDim, TestDim)
    /\ analysis.threshold = Rat(1, 10)
    /\ ~analysis.is_blurry
    /\ Below(analysis.value, Rat(1, 1))

(***************************************************************************)
(* Properties of a run of main (Spec)                                      *)
(***************************************************************************)
\* StreamOfPaths mode: no file, no synthetic image, no passthrough, stdin
\* not a terminal
StreamMode == ReadsStdin(argv) /\ "-p" \notin argv /\ ~isTty

PassthroughMode == "-p" \in argv /\ ~isTty

Finished == pc = "done"

\* the position of the first x in s, or Len(s) + 1
FirstIndex(s, x) ==
    IF \E i \in 1..Len(s) : s[i] = x
    THEN CHOOSE i \in 1..Len(s) : s[i] = x /\ \A j \in 1..(i - 1) : s[j] # x
    ELSE Len(s) + 1

\* the bytes of the input without its end-of-file conditions
InputBytes(s) == SelectSeq(s, LAMBDA x : x # EofMark)

\* the bytes the path loop is given: what follows the end-of-file condition
\* that ended the preload, up to the next one
StreamBytes(s) ==
    LET rest == SubSeq(s, FirstIndex(s, EofMark) + 1, Len(s))
    IN  SubSeq(rest, 1, FirstIndex(rest, EofMark) - 1)

\* the NUL-delimited records of a byte stream; the last one need not be
\* NUL-terminated
RECURSIVE Records(_)
Records(b) ==
    IF b = <<>> THEN <<>>
    ELSE LET k == FirstIndex(b, NUL)
         IN  <<SubSeq(b, 1, k - 1)>> \o Records(SubSeq(b, k + 1, Len(b)))

IsPrefix(s, t) == Len(s) <= Len(t) /\ SubSeq(t, 1, Len(s)) = s

RECURSIVE Concat(_)
Concat(ss) == IF ss = <<>> THEN <<>> ELSE Head(ss) \o Concat(Tail(ss))

LogRecs == [i \in 1..Len(log) |-> log[i].rec]

Classified(e) == e.ev \in {"kept", "dropped", "error"}

\* what the log says stdout holds
ExpectedChunks(e) ==
    IF e.ev # "kept" THEN <<>>
    ELSE IF "-a" \in argv THEN <<Text("ascii", e.rec)>>
    ELSE <<Raw(e.rec), Raw(<<NUL>>)>>

ExpectedStdout == Concat([i \in 1..Len(log) |-> ExpectedChunks(log[i])])

\* what the log says stderr holds
ExpectedDiagnostics(e) ==
    IF e.ev = "error" THEN <<Diagnostic(from_utf8(e.rec).chars)>> ELSE <<>>

ExpectedStderr == Concat([i \in 1..Len(log) |-> ExpectedDiagnostics(log[i])])

\* every record of the stream has been read, in order, when the loop ends
AllRecordsRead ==
    /\ IsPrefix(LogRecs, Records(StreamBytes(input)))
    /\ (Finished /\ exit = "ok" => LogRecs = Records(StreamBytes(input)))

\* C3: in StreamOfPaths mode a classified record is emitted exactly when
\* its verdict matches the filter mode: without -s (PassBlurry, the
\* default) the blurry records, with -s (PassSharp) the sharp ones.
C3_FilterMatchesMode ==
    StreamMode =>
        \A i \in 1..Len(log) :
            log[i].ev \in {"kept", "dropped"} =>
                (log[i].ev = "kept") =
                    (IF "-s" \in argv THEN ~log[i].blurry ELSE log[i].blurry)

C5_FailureDoesNotAbort ==
    StreamMode =>
        /\ Len(stderr) = Cardinality({i \in 1..Len(log) : log[i].ev = "error"})
        /\ \A i \in 1..Len(log) :
              log[i].ev = "error" =>
                  \E k \in 1..Len(stderr) : stderr[k].path = from_utf8(log[i].rec).chars
        /\ (cause # "write" =>
              Len(stdout) = SumSeq([i \in 1..Len(log) |-> Len(ExpectedChunks(log[i]))]))
        /\ (Finished /\ exit = "ok" => Len(log) = Len(Records(StreamBytes(input))))
        /\ (Finished /\ cause = "load" => log = <<>>)

\* C5 witness: the loop ended normally after a record naming a file that
\* could not be processed, and a later record was classified and kept.
C5_Witness ==
    /\ StreamMode /\ Finished /\ exit = "ok"
    /\ \E i, j \in 1..Len(log) :
          i < j /\ log[i].ev = "error" /\ log[i].rec # <<>> /\ log[j].ev = "kept"

\* the bytes of the raw chunks of stdout
StdoutBytes == Concat([i \in 1..Len(stdout) |-> stdout[i].data])

\* C6: in Passthrough mode, for an input stream with one end, the bytes
\* written to stdout are the bytes of the input, and no other step of main
\* consumes stdin before the copy loop.
C6_PassthroughCopiesInput ==
    (PassthroughMode /\ Finished /\ cause \notin {"read", "write"}
       /\ input # <<>> /\ EofMark \notin Range(input)) =>
        /\ exit = "ok"
        /\ preloaded = <<>>
        /\ \A i \in 1..Len(stdout) : stdout[i].fmt = "raw"
        /\ StdoutBytes = InputBytes(input)

\* the records kept so far, each followed by a NUL
KeptBytes ==
    Concat([i \in 1..Len(log) |->
               IF log[i].ev = "kept" THEN log[i].rec \o <<NUL>> ELSE <<>>])

\* C7: in StreamOfPaths mode with terse output, stdout holds, for each kept
\* record in input order, the bytes of its path and one NUL, and nothing
\* else, also when the last record of the input had no trailing NUL.
C7_TerseOutput ==
    (StreamMode /\ "-a" \notin argv /\ cause # "write") =>
        /\ \A i \in 1..Len(stdout) : stdout[i].fmt = "raw"
        /\ StdoutBytes = KeptBytes
        /\ IsPrefix(LogRecs, Records(StreamBytes(input)))

\* C7 witness: the last record of the input has no trailing NUL, follows
\* another kept record, and was kept.
C7_Witness ==
    /\ StreamMode /\ "-a" \notin argv /\ Finished /\ exit = "ok"
    /\ Len(log) >= 2
    /\ log[1].ev = "kept" /\ log[Len(log)].ev = "kept"
    /\ input[Len(input)] # NUL

\* C8: in StreamOfPaths mode an empty record causes no decode attempt, no
\* output and no diagnostic.
C8_EmptyRecordIgnored ==
    StreamMode =>
        /\ \A i \in 1..Len(log) : log[i].rec = <<>> => ~Classified(log[i])
        /\ \A k \in 1..Len(stderr) : stderr[k].path # <<>>

\* C9: a run in StreamOfPaths mode on an input stream with one end returns
\* Ok unless reading the input stream or writing the output stream failed.
C9_OnlyIoFailuresAreFatal ==
    (StreamMode /\ Finished /\ exit # "ok" /\ input # <<>> /\ EofMark \notin Range(input)) =>
        cause \in {"read", "write"}

\* the bytes the path loop has taken from stdin so far
Consumed ==
    LET sb == StreamBytes(input)
    IN  SubSeq(sb, 1, Len(sb) - Len(stdin))

\* C17: in StreamOfPaths mode the records are handled one at a time in
\* input order: while a record is in hand, the records read so far are the
\* finished ones and that one; when the next read is made every record read
\* so far is finished (written to stdout, reported on stderr, or skipped),
\* and stdout and stderr hold the outputs in the order of the records.
C17_OneRecordAtATime ==
    (StreamMode /\ pc \in {"stream", "record"}) =>
        /\ Len(stdin) <= Len(StreamBytes(input))
        /\ (pc = "record" => Records(Consumed) = Append(LogRecs, buffer))
        /\ (pc = "stream" => Records(Consumed) = LogRecs)
        /\ stdout = ExpectedStdout
        /\ stderr = ExpectedStderr

\* C17 witness: the second record is in hand, and the output of the first
\* one, which was kept, is on stdout.
C17_Witness ==
    /\ StreamMode /\ pc = "record"
    /\ Len(log) = 1 /\ log[1].ev = "kept"
    /\ stdout # <<>>
    /\ buffer # <<>>

(***************************************************************************)
(* Properties of a run of main with options and a config file (SpecConfig) *)
(***************************************************************************)
ConfigFailed == "--config" \in argv /\ ~configFile.ok

\* C15: diagnostics (a config file that fails to load, an image that cannot
\* be processed) are written to stderr only: no chunk of stdout is a
\* diagnostic, and in StreamOfPaths mode stdout holds the formatted output
\* of the kept records and nothing else.
C15_DiagnosticsOnStderrOnly ==
    /\ \A i \in 1..Len(stdout) : stdout[i].fmt # "diagnostic"
    /\ (ConfigFailed /\ pc # "start" => stderr # <<>> /\ stderr[1] = ConfigDiagnostic)
    /\ (StreamMode /\ pc # "start" =>
          stderr = (IF ConfigFailed THEN <<ConfigDiagnostic>> ELSE <<>>) \o ExpectedStderr)
    /\ (StreamMode /\ cause # "write" => stdout = ExpectedStdout)

\* C15 witness: a run in StreamOfPaths mode ended after the config file
\* failed to load, one record could not be processed and one was kept.
C15_Witness ==
    /\ StreamMode /\ Finished /\ exit = "ok"
    /\ ConfigFailed
    /\ Len(stderr) >= 2
    /\ stdout # <<>>

\* the threshold the claim gives one metric: the value on the command line,
\* else the value in the config file, else the default of
\* GrepfuzzConfig::default()
Precedence(flag, file_value, default_value) ==
    IF flag \in argv THEN OptionValue(flag)
    ELSE IF "--config" \in argv /\ configFile.ok /\ file_value.some THEN file_value.v
    ELSE default_value.v

\* C19: once main has resolved them, before any record is read, each of
\* the three thresholds is the command-line value, else the config-file
\* value, else the built-in default (also when the config file fails to
\* load), and stays so while the records of the stream are processed.
C19_ThresholdsResolvedOnce ==
    pc # "start" =>
        /\ thresholds.laplacian =
              Precedence("--threshold", configFile.detectors.laplacian_threshold,
                         GrepfuzzConfig_default.laplacian_threshold)
        /\ thresholds.tenengrad =
              Precedence("--tenengrad-threshold",
                         configFile.detectors.tenengrad_threshold,
                         GrepfuzzConfig_default.tenengrad_threshold)
        /\ thresholds.opencv_laplacian =
              Precedence("--opencv-laplacian-threshold",
                         configFile.detectors.opencv_laplacian_threshold,
                         GrepfuzzConfig_default.opencv_laplacian_threshold)

(***************************************************************************)
(* Termination of the two loops over stdin (SpecLive)                      *)
(***************************************************************************)
InLoop == pc \in {"passthrough", "stream", "record"}

\* the loop is at its read and the read returns zero bytes
ZeroBytesRead == pc \in {"passthrough", "stream"} /\ Len(read_until(stdin).buf) = 0

\* the step leaves the loop
LeavesLoop == InLoop /\ pc' = "done"

\* the step leaves the loop because a read or a write failed (main returns
\* the error, or println! panics: the process ends)
IoFailure == cause' \in {"read", "write"}

\* the records the passthrough loop has copied
CopiedRecs == [i \in 1..Len(stdout) |-> pop_nul(stdout[i].data)]

\* the bytes given to the loops are the bytes after the preload
LoopRecords == Records(StreamBytes(input))

\* the loop is left, short of an I/O failure, only by a step whose read
\* returns zero bytes, and such a read always leaves it
EndsExactlyOnZeroBytes ==
    /\ (LeavesLoop /\ ~IoFailure) => (ZeroBytesRead /\ exit' = "ok")
    /\ (ZeroBytesRead /\ pc' # pc) => LeavesLoop
    /\ ZeroBytesRead => (stdin = <<>> /\ pc' \in {pc, "done"})

\* no record is handled twice or out of order, and when the loop ends on
\* the zero-byte read every record has been handled
EveryRecordOnce ==
    /\ (StreamMode /\ pc # "start") => IsPrefix(LogRecs, LoopRecords)
    /\ (PassthroughMode /\ pc # "start") => IsPrefix(CopiedRecs, LoopRecords)
    /\ (StreamMode /\ Finished /\ exit = "ok") =>
           (LogRecs = LoopRecords /\ stdin = <<>>)
    /\ (PassthroughMode /\ Finished /\ exit = "ok") =>
           (CopiedRecs = LoopRecords /\ stdin = <<>>)

=============================================================================
